---------------------------- MODULE Spec2Model ----------------------------
(***************************************************************************)
(* Model of made2591/serverless-iot-stack.                                 *)
(*                                                                         *)
(*   worker       the Lambda that fans one telemetry event out to three    *)
(*                sinks (CloudWatch metrics, S3 object, DynamoDB record)   *)
(*                with goroutines, a buffered channel and a WaitGroup.     *)
(*   remediation  the Lambda fed by the monitoring table's stream, which   *)
(*                derives a remediation message, persists and publishes it.*)
(*                                                                         *)
(* float64 readings are modelled as integer tenths (27.5 is 275).  Go      *)
(* strings that the code formats or parses (unixNow, TTL_DYNAMO) are       *)
(* sequences of one-character strings.                                     *)
(***************************************************************************)
EXTENDS Integers, Sequences, FiniteSets, Bags, TLC

\* ------------------------------------------------------------------ bounds
StartClock == 9
MaxTicks == 1
MaxDispatch == 2
MaxFairDispatch == 1
MaxBatchLen == 2
MaxBatches == 1
MaxIter == 2
MaxCommands == 2

\* ------------------------------------------------------- program constants
TTL_DYNAMO == 60

\* a consume loop one iteration short
ConsumerCountShort == 3 - 1

\* one consumer more than there are outcomes
ConsumerCountLong == 3 + 1

\* "for i := 0; i < 3; i++" in handler
ConsumerCount == 3

\* the device's constants. The amplitude factors are in tenths (1.1, 0.3),
\* the sine in ten-thousandths, so temperatures and humidities of the device
\* are in 1/100000 of a degree or of a percent (27.0 is 2700000)
VELOCITY == 11
REMEDIATION_FACTOR == 3
MIN_TEMP == 2700000
MIN_HUM == 6000000
DEVICE_ID == "381938912"

\* --------------------------------------------------------------- strconv
Nil == "nil"

Digits == <<"0", "1", "2", "3", "4", "5", "6", "7", "8", "9">>

DigitValue(c) == (CHOOSE i \in 1..10 : Digits[i] = c) - 1

IsDigit(c) == \E i \in 1..10 : Digits[i] = c

RECURSIVE FormatNat(_)
FormatNat(n) == IF n < 10 THEN <<Digits[n + 1]>>
                ELSE Append(FormatNat(n \div 10), Digits[(n % 10) + 1])

\* strconv.FormatInt(n, 10)
FormatInt(n) == IF n < 0 THEN <<"-">> \o FormatNat(0 - n) ELSE FormatNat(n)

RECURSIVE DecimalValue(_)
DecimalValue(s) == IF s = <<>> THEN 0
                   ELSE 10 * DecimalValue(SubSeq(s, 1, Len(s) - 1)) + DigitValue(s[Len(s)])

\* strconv.ParseInt(s, 10, 64): an optional sign, then one or more digits
ParseInt(s) ==
  LET signed == s # <<>> /\ s[1] \in {"+", "-"}
      body   == IF signed THEN Tail(s) ELSE s
      ok     == body # <<>> /\ \A i \in 1..Len(body) : IsDigit(body[i])
  IN  IF ~ok THEN [val |-> 0, err |-> "ErrSyntax"]
      ELSE [val |-> IF signed /\ s[1] = "-" THEN 0 - DecimalValue(body) ELSE DecimalValue(body),
            err |-> Nil]


\* ------------------------------------------------------------------ state
VARIABLES
  now,         \* the wall clock, in whole seconds (time.Now().Unix())
  ttlEnv,      \* worker: the TTL_DYNAMO environment variable
  ttlDynamo,   \* worker: global ttlDynamo, set by init()
  unixNow,     \* worker: global unixNow
  event,       \* worker: the handler's parameter
  m,           \* worker: the Job built by unit(event), shared by the sinks
  r,           \* worker: the buffer of the channel made by pipeline
  wg,          \* worker: the WaitGroup counter
  hpc,         \* worker: position of the handler
  spc,         \* worker: position of each sink goroutine
  sres,        \* worker: each sink's local res and err
  cpc,         \* worker: how many consume goroutines are at the receive, how many returned
  consumed,    \* history: the bag of the Jobs the consume goroutines received
  metrics,     \* CloudWatch: the data emitted, in order
  bucket,      \* S3 history bucket: a set of objects
  table,       \* DynamoDB monitoring table: a set of items
  calls,       \* history: the external calls of each sink in this dispatch
  puts,        \* history: the items PutItem stored in the monitoring table, in order
  ingestion,   \* history: the clock at the entry of the current dispatch
  dispatches,  \* history: number of handler invocations so far
  gate,        \* remediation: the REMEDIATION_LOGIC environment variable
  stream,      \* remediation: the handler's parameter, a batch of stream records
  rpc,         \* remediation: position of the handler
  rUnixNow,    \* remediation: global unixNow
  message,     \* remediation: the IoTEvent remediationLogic built
  direction,   \* remediation: the branch remediationLogic logged
  rtable,      \* DynamoDB remediation table: a set of items
  topic,       \* IoT remediation topic: the payloads published, in order
  rcalls,      \* history: the external calls of the current invocation, in order
  batches,     \* history: number of batches handed to the handler so far
  dpc,         \* device: position of main: "main", "up" (goroutines started), "halted"
  halt,        \* device: what ended the process, "" while it runs
  remediationMode, \* device: global remediationLogic (0, 1 or -1)
  lastTemp,    \* device: global lastTemp
  lastHum,     \* device: global lastHum
  x,           \* device: monitoringLogicSimulator's local x
  gpc,         \* device: position of the monitoringLogicSimulator goroutine
  update,      \* device: the update the loop has prepared, with what it read
  lpc,         \* device: position of the remediationListener goroutine
  cbpc,        \* device: position of the message callback remediationLogicSimulator
  iotEvent,    \* device: the callback's local iotEvent
  payloadIn,   \* device: the payload of the message the callback is handling
  telemetry,   \* monitoring topic: the updates published, in order
  received,    \* history: the commands the callback went through, in order
  commands     \* history: number of messages delivered to the callback

wvars == <<ttlEnv, ttlDynamo, unixNow, event, m, r, wg, hpc, spc, sres,
           cpc, consumed, metrics, bucket, table, calls, puts, ingestion, dispatches>>

cvars == <<gate, stream, rpc, rUnixNow, message, direction, rtable, topic, rcalls, batches>>

dvars == <<dpc, halt, remediationMode, lastTemp, lastHum, x, gpc, update, lpc, cbpc,
           iotEvent, payloadIn, telemetry, received, commands>>

vars == <<now, wvars, cvars, dvars>>

\* ------------------------------------------------------------ worker data
\* Action.String(): Monitor.String() and Remediate.String()
Monitor == "Monitor"

\* the two names of the array of String() in the other order
RemediateSwapped == "Monitor"

Remediate == "Remediate"

\* type Information / type IoTEvent
Information(device, temp, hum, action) ==
  [Device |-> device, Temp |-> temp, Hum |-> hum, Action |-> action]

\* a pointer is the empty set (nil) or the set of the one value it points to
NilPtr == {}

Ptr(v) == {v}

Deref(p) == CHOOSE v \in p : TRUE

IoTEvent(body) == [Body |-> body]

\* the events the IoT rule may hand to the handler; the last one is a payload
\* without a "body", which unmarshals to a nil Body
EventInputs ==
  { IoTEvent(Ptr(Information("d1", 275, 602, Monitor))),
    IoTEvent(Ptr(Information("d2", 281, 610, Monitor))),
    IoTEvent(NilPtr) }

\* values of the TTL_DYNAMO environment variable: unset, a number, not a number
TtlEnvInputs == { <<>>, <<"9", "0">>, <<"6", "0", "s">> }

\* the operators handed to pipeline, in order
Sinks == <<"publishMetric", "historicizeOnS3Bucket", "persistOnDynamoDB">>

SinkSet == {Sinks[i] : i \in 1..Len(Sinks)}

\* the consume goroutines are alike: none started yet
NoConsumers == [recv |-> 0, end |-> 0]

\* json.Marshal of an IoTEvent: the fields under their json tags, a nil Body as null
Marshal(e) ==
  [body |-> {[device |-> b.Device, temperature |-> b.Temp,
              humidity |-> b.Hum, action |-> b.Action] : b \in e.Body}]

\* Job with the error left out of the composite literal
JobWithoutError(e, res, err) == [Event |-> e, Result |-> res, Error |-> Nil]

\* type Job
Job(e, res, err) == [Event |-> e, Result |-> res, Error |-> err]

\* a Job built around a zeroed event instead of the handler's
unitZeroed(c) == Job(IoTEvent(Ptr(Information("", 0, 0, ""))), "", Nil)

\* unit: "&Job{Event: &c, Result: "", Error: nil}"
unit(c) == Job(c, "", Nil)

\* type Item, as dynamodbattribute.MarshalMap writes it (json tags)
Item(digest, body, ttl) ==
  [digest |-> digest, device |-> body.Device, temperature |-> body.Temp,
   humidity |-> body.Hum, action |-> body.Action, ttl |-> ttl]

\* init() with the test of err inverted
InitTtlDynamoInverted(env) ==
  LET p == ParseInt(env) IN IF p.err = Nil THEN TTL_DYNAMO ELSE p.val

\* init(): ttlDynamo from the environment, TTL_DYNAMO when it does not parse
InitTtlDynamo(env) ==
  LET p == ParseInt(env) IN IF p.err # Nil THEN TTL_DYNAMO ELSE p.val

\* ---------------------------------------------------- external services
\* s3manager Upload: one object per key, the later upload replaces it
Upload(b, key, body) ==
  {o \in b : o.key # key} \cup {[key |-> key, body |-> body]}

\* a table that keeps the old item next to the new one
PutItemAppends(t, item) == t \cup {item}

\* dynamodb PutItem on a table whose hash key is digest
PutItem(t, item) ==
  {i \in t : i.digest # item.digest} \cup {item}

\* cloudwatch PutMetricData: two data, Temperature and Humidity
MetricData(body) ==
  << [name |-> "Temperature", value |-> body.Temp, device |-> body.Device],
     [name |-> "Humidity", value |-> body.Hum, device |-> body.Device] >>

\* -------------------------------------------------------- worker: handler
\* a channel with one place less than there are operators
ChanCapShort == Len(Sinks) - 1

\* make(chan *Job, len(os))
ChanCap == Len(Sinks)

\* a key read from the clock by the sink itself
S3KeyFromClock == FormatInt(now)

\* the key historicizeOnS3Bucket uploads under
S3Key == unixNow

\* the digest persistOnDynamoDB writes under
Digest == unixNow

\* a wait that returns at the first wg.Done()
WaitReturnsAtFirst(w) == w < ConsumerCount

\* wg.Wait() returns
WaitReturns(w) == w = 0

NoSres == [res |-> "", err |-> Nil]

Running == hpc \notin {"idle", "done", "crashed"}

\* handler, entry to the call of pipeline
handler(e) ==
  /\ hpc \in {"idle", "done", "crashed"}
  /\ dispatches < MaxDispatch
  /\ dispatches' = dispatches + 1
  /\ unixNow' = FormatInt(now)
  /\ ingestion' = now
  /\ event' = e
  /\ m' = unit(e)
  /\ r' = <<>>
  /\ wg' = 0
  /\ hpc' = "pipeline"
  /\ spc' = [s \in SinkSet |-> "off"]
  /\ sres' = [s \in SinkSet |-> NoSres]
  /\ cpc' = NoConsumers
  /\ consumed' = EmptyBag
  /\ calls' = [s \in SinkSet |-> <<>>]
  /\ UNCHANGED <<cvars, dvars, now, ttlEnv, ttlDynamo, metrics, bucket, table, puts>>

\* pipeline: "for i, o := range os { go o(m, r) }" starts every operator
pipeline ==
  /\ hpc = "pipeline"
  /\ spc' = [s \in SinkSet |-> "run"]
  /\ hpc' = "consume"
  /\ UNCHANGED <<cvars, dvars, now, ttlEnv, ttlDynamo, unixNow, event, m, r, wg, sres, cpc, consumed,
                 metrics, bucket, table, calls, puts, ingestion, dispatches>>

\* handler: "for i := 0; i < 3; i++ { wg.Add(1); go consume(Jobs, &wg) }";
\* nothing reads wg before the loop is over
startConsume ==
  /\ hpc = "consume"
  /\ wg' = wg + ConsumerCount
  /\ cpc' = [cpc EXCEPT !.recv = @ + ConsumerCount]
  /\ hpc' = "wait"
  /\ UNCHANGED <<cvars, dvars, now, ttlEnv, ttlDynamo, unixNow, event, m, r, sres, spc, consumed,
                 metrics, bucket, table, calls, puts, ingestion, dispatches>>

\* handler: wg.Wait() and the lines after it
waitDone ==
  /\ hpc = "wait"
  /\ WaitReturns(wg)
  /\ hpc' = "done"
  /\ UNCHANGED <<cvars, dvars, now, ttlEnv, ttlDynamo, unixNow, event, m, r, wg, spc, sres, cpc, consumed,
                 metrics, bucket, table, calls, puts, ingestion, dispatches>>

\* ---------------------------------------------------------- worker: sinks
\* a nil-pointer dereference in a goroutine ends the process, and with it the
\* channel, the wait group and every goroutine; what was written stays written
Panic ==
  /\ hpc' = "crashed"
  /\ r' = <<>>
  /\ wg' = 0
  /\ spc' = [s \in SinkSet |-> "off"]
  /\ sres' = [s \in SinkSet |-> NoSres]
  /\ cpc' = NoConsumers
  /\ consumed' = EmptyBag
  /\ UNCHANGED <<cvars, dvars, now, ttlEnv, ttlDynamo, unixNow, event, m,
                 metrics, bucket, table, calls, puts, ingestion, dispatches>>

\* a sink that calls its service again when the call failed
AttemptRetried(cs, key, ok) ==
  IF ok THEN Append(cs, [key |-> key, ok |-> ok])
        ELSE Append(Append(cs, [key |-> key, ok |-> ok]), [key |-> key, ok |-> ok])

\* the one external call a sink makes, PutMetricData, Upload or PutItem, added
\* to the calls of the sink
Attempt(cs, key, ok) == Append(cs, [key |-> key, ok |-> ok])

\* a sink that starts its work when the sinks before it have reported
StartedInTurn(s) ==
  /\ spc[s] = "run"
  /\ \A i \in 1..Len(Sinks) : \A j \in 1..Len(Sinks) :
       (Sinks[j] = s /\ i < j) => spc[Sinks[i]] = "end"

\* "go o(m, r)": the sink runs from its start on, whatever the others do
Started(s) == spc[s] = "run"

\* the last line of each sink, r <- &Job{...}: the Job goes into the buffer
\* of the channel
Report(s, res, err) ==
  /\ Len(r) < ChanCap
  /\ r' = Append(r, Job(m.Event, res, err))
  /\ sres' = [sres EXCEPT ![s] = [res |-> res, err |-> err]]
  /\ spc' = [spc EXCEPT ![s] = "end"]

\* publishMetric
publishMetric ==
  LET s == "publishMetric" IN
  /\ Running /\ Started(s)
  /\ IF m.Event.Body = NilPtr THEN Panic
     ELSE \E ok \in BOOLEAN :
            /\ metrics' = IF ok THEN Append(metrics, MetricData(Deref(m.Event.Body))) ELSE metrics
            /\ calls' = [calls EXCEPT ![s] = Attempt(@, <<>>, ok)]
            /\ Report(s, Deref(m.Event.Body).Action,
                      IF ok THEN Nil ELSE "PutMetricDataError")
            /\ UNCHANGED <<cvars, dvars, now, ttlEnv, ttlDynamo, unixNow, event, m, wg, hpc, cpc, consumed,
                           bucket, table, puts, ingestion, dispatches>>

\* historicizeOnS3Bucket
historicizeOnS3Bucket ==
  LET s == "historicizeOnS3Bucket" IN
  /\ Running /\ Started(s)
  /\ \E ok \in BOOLEAN :
       /\ bucket' = IF ok THEN Upload(bucket, S3Key, Marshal(m.Event)) ELSE bucket
       /\ calls' = [calls EXCEPT ![s] = Attempt(@, S3Key, ok)]
       /\ Report(s, IF ok THEN "UploadOutput" ELSE "",
                 IF ok THEN Nil ELSE "UploadError")
       /\ UNCHANGED <<cvars, dvars, now, ttlEnv, ttlDynamo, unixNow, event, m, wg, hpc, cpc, consumed,
                      metrics, table, puts, ingestion, dispatches>>

\* the item persistOnDynamoDB builds
NewItem ==
  Item(Digest, Deref(m.Event.Body), ParseInt(unixNow).val + ttlDynamo)

\* persistOnDynamoDB
persistOnDynamoDB ==
  LET s == "persistOnDynamoDB" IN
  /\ Running /\ Started(s)
  /\ IF m.Event.Body = NilPtr THEN Panic
     ELSE \E ok \in BOOLEAN :
            /\ table' = IF ok THEN PutItem(table, NewItem) ELSE table
            /\ puts' = IF ok THEN Append(puts, NewItem) ELSE puts
            /\ calls' = [calls EXCEPT ![s] = Attempt(@, Digest, ok)]
            /\ Report(s, IF ok THEN "PutItemOutput" ELSE "",
                      IF ok THEN Nil ELSE "PutItemError")
            /\ UNCHANGED <<cvars, dvars, now, ttlEnv, ttlDynamo, unixNow, event, m, wg, hpc, cpc, consumed,
                           metrics, bucket, ingestion, dispatches>>

\* consume: m := <-r, the error log and the deferred wg.Done()
consume ==
  /\ Running /\ cpc.recv > 0
  /\ r # <<>>
  /\ consumed' = consumed (+) SetToBag({Head(r)})
  /\ r' = Tail(r)
  /\ wg' = wg - 1
  /\ cpc' = [cpc EXCEPT !.recv = @ - 1, !.end = @ + 1]
  /\ UNCHANGED <<cvars, dvars, now, ttlEnv, ttlDynamo, unixNow, event, m, hpc, spc, sres,
                 metrics, bucket, table, calls, puts, ingestion, dispatches>>

\* ------------------------------------------------------------------ clock
Tick ==
  /\ now < StartClock + MaxTicks
  /\ now' = now + 1
  /\ UNCHANGED <<wvars, cvars, dvars>>

\* ------------------------------------------------------ remediation: data
\* values of the REMEDIATION_LOGIC environment variable
GateInputs == {"true", "false", "True"}

\* the attributes an item of the monitoring table may show in an image
FullImage(t, h) == [device |-> "d1", temperature |-> t, humidity |-> h, action |-> Monitor]

\* events.DynamoDBEventRecord, by its Change.NewImage and Change.OldImage
StreamRecord(new, old) == [NewImage |-> new, OldImage |-> old]

\* the records a batch is drawn from: an insertion, a rise, a fall, a change
\* of temperature alone without and with an old humidity, a removal, and
\* changes whose old image holds only the humidity or only the temperature
StreamRecords ==
  { StreamRecord(FullImage(290, 610), << >>),
    StreamRecord(FullImage(290, 610), [temperature |-> 260, humidity |-> 600]),
    StreamRecord(FullImage(250, 610), [temperature |-> 260, humidity |-> 600]),
    StreamRecord([temperature |-> 290], [temperature |-> 260]),
    StreamRecord([temperature |-> 290], [temperature |-> 260, humidity |-> 600]),
    StreamRecord(<< >>, [temperature |-> 260, humidity |-> 600]),
    StreamRecord(FullImage(290, 610), [humidity |-> 600]),
    StreamRecord(FullImage(250, 610), [temperature |-> 260]) }

\* events.DynamoDBEvent with 1..MaxBatchLen records
Streams ==
  { [Records |-> rs] : rs \in UNION { [1..n -> StreamRecords] : n \in 1..MaxBatchLen } }

\* ------------------------------------------- remediation: remediationLogic
\* the variables remediationLogic declares, at their zero values
ZeroAcc ==
  [deviceId |-> "", newTemperature |-> 0, oldTemperature |-> 0,
   newHumidity |-> 0, oldHumidity |-> 0]

\* image[name] when the image has the attribute, else the value held so far
Attr(image, name, held) == IF name \in DOMAIN image THEN image[name] ELSE held

\* one iteration of "for _, record := range stream.Records"
Extract(acc, record) ==
  [deviceId       |-> Attr(record.NewImage, "device", acc.deviceId),
   newTemperature |-> Attr(record.NewImage, "temperature", acc.newTemperature),
   newHumidity    |-> Attr(record.NewImage, "humidity", acc.newHumidity),
   oldTemperature |-> Attr(record.OldImage, "temperature", acc.oldTemperature),
   oldHumidity    |-> Attr(record.OldImage, "humidity", acc.oldHumidity)]

\* the loop keeping only what the last record of the batch shows
AccumulateLastOnly(acc, records) ==
  IF records = <<>> THEN acc ELSE Extract(ZeroAcc, records[Len(records)])

RECURSIVE Accumulate(_, _)
Accumulate(acc, records) ==
  IF records = <<>> THEN acc
  ELSE Accumulate(Extract(acc, Head(records)), Tail(records))

\* the branch of "if newTemperature > oldTemperature", which only logs
Direction(acc) ==
  IF acc.newTemperature > acc.oldTemperature THEN "cooling down" ELSE "warming up"

\* the test with && for ||
BootstrapBoth(acc) == acc.oldTemperature = 0 /\ acc.oldHumidity = 0

\* the test on the temperature alone
BootstrapTemperature(acc) == acc.oldTemperature = 0

\* "if oldTemperature == 0 || oldHumidity == 0"
Bootstrap(acc) == acc.oldTemperature = 0 \/ acc.oldHumidity = 0

\* remediationLogic with the cooling branch sending the new values
remediationLogicDirectional(s) ==
  LET acc == Accumulate(ZeroAcc, s.Records)
      sub == Bootstrap(acc) \/ acc.newTemperature > acc.oldTemperature
  IN  IoTEvent(Ptr(Information(acc.deviceId,
                               IF sub THEN acc.newTemperature ELSE acc.oldTemperature,
                               IF sub THEN acc.newHumidity ELSE acc.oldHumidity,
                               Remediate)))

\* remediationLogic up to the construction of remediationMessage
remediationLogic(s) ==
  LET acc == Accumulate(ZeroAcc, s.Records)
      oldTemperature == IF Bootstrap(acc) THEN acc.newTemperature ELSE acc.oldTemperature
      oldHumidity    == IF Bootstrap(acc) THEN acc.newHumidity ELSE acc.oldHumidity
  IN  IoTEvent(Ptr(Information(acc.deviceId, oldTemperature, oldHumidity, Remediate)))

\* the Item the remediation function's persistOnDynamoDB builds: no TTL is set
RemediationItem ==
  Item(rUnixNow, Deref(message.Body), 0)

\* the comparison made without regard to case
EnabledAnyCase(g) == g \in {"true", "True"}

\* "strings.Compare(os.Getenv("REMEDIATION_LOGIC"), "true") == 0"
Enabled(g) == g = "true"

\* the publish placed before the call of persistOnDynamoDB
StepAfterPublishFirst(pc) ==
  CASE pc = "logic" -> "publish"
    [] pc = "publish" -> "persist"
    [] pc = "persist" -> "return"

\* the order of the handler's steps once the logic is enabled: remediationLogic
\* builds the message and calls persistOnDynamoDB before it returns, then the
\* handler publishes, then it returns
StepAfter(pc) ==
  CASE pc = "logic" -> "persist"
    [] pc = "persist" -> "publish"
    [] pc = "publish" -> "return"

\* an error that ends the handler
ProceedsOnSuccess(ok) == ok

\* "if err != nil { log.Errorf(...) }": the error of PutItem and of Publish is
\* logged and the handler goes on, whatever the outcome
Proceeds(ok) == TRUE

\* ---------------------------------------------------- remediation: handler
\* no batch in hand
NoStream == [Records |-> <<>>]

\* handler, entry to the construction of the message in remediationLogic;
\* with the logic disabled it only logs and returns
remediationHandler(s) ==
  /\ rpc = "idle"
  /\ batches < MaxBatches
  /\ batches' = batches + 1
  /\ rUnixNow' = FormatInt(now)
  /\ stream' = s
  /\ rcalls' = <<>>
  /\ IF Enabled(gate)
       THEN /\ message' = remediationLogic(s)
            /\ direction' = Direction(Accumulate(ZeroAcc, s.Records))
            /\ rpc' = StepAfter("logic")
       ELSE /\ rpc' = "return"
            /\ UNCHANGED <<message, direction>>
  /\ UNCHANGED <<wvars, dvars, now, gate, rtable, topic>>

\* the tables of the template
MonitoringTable == "MonitoringTable"

RemediationLogicTable == "RemediationLogicTable"

\* the tables declared with a StreamSpecification
Streamed(t) == t = MonitoringTable

\* RemediationFunction's event source: "Stream: !GetAtt MonitoringTable.StreamArn"
StreamSource == MonitoringTable

\* the function given the table it is triggered by
tableNameOfSource == MonitoringTable

\* "tableName = os.Getenv("REMEDIATION_TABLE")", set by the template to
\* "!Ref RemediationLogicTable"
tableName == RemediationLogicTable

\* remediationLogic: persistOnDynamoDB(remediationMessage); an error is logged.
\* The item goes into the table tableName names.
remediationPersist ==
  /\ rpc = "persist"
  /\ \E ok \in BOOLEAN :
       /\ rtable' = IF ok /\ tableName = RemediationLogicTable
                      THEN PutItem(rtable, RemediationItem) ELSE rtable
       /\ table' = IF ok /\ tableName = MonitoringTable
                     THEN PutItem(table, RemediationItem) ELSE table
       /\ rcalls' = Append(rcalls, [call |-> "PutItem", key |-> rUnixNow, ok |-> ok,
                                    table |-> tableName])
       /\ rpc' = IF Proceeds(ok) THEN StepAfter("persist") ELSE "failed"
  /\ UNCHANGED <<dvars, now, gate, stream, rUnixNow, message, direction, topic, batches>>
  /\ UNCHANGED <<ttlEnv, ttlDynamo, unixNow, event, m, r, wg, hpc, spc, sres,
                 cpc, consumed, metrics, bucket, calls, puts, ingestion, dispatches>>

\* handler: json.Marshal(event), iotsvc.Publish; an error is logged
remediationPublish ==
  /\ rpc = "publish"
  /\ \E ok \in BOOLEAN :
       /\ topic' = IF ok THEN Append(topic, Marshal(message)) ELSE topic
       /\ rcalls' = Append(rcalls, [call |-> "Publish", key |-> <<>>, ok |-> ok,
                                    table |-> ""])
       /\ rpc' = IF Proceeds(ok) THEN StepAfter("publish") ELSE "failed"
  /\ UNCHANGED <<wvars, dvars, now, gate, stream, rUnixNow, message, direction, rtable, batches>>

\* handler returns: its parameter and locals are gone, the globals stay
remediationReturn ==
  /\ rpc = "return"
  /\ rpc' = "idle"
  /\ stream' = NoStream
  /\ message' = IoTEvent(NilPtr)
  /\ direction' = ""
  /\ rcalls' = <<>>
  /\ UNCHANGED <<wvars, dvars, now, gate, rUnixNow, rtable, topic, batches>>

\* ------------------------------------------------------------ device: data
\* math.Sin((1.0/40.0)*x) in ten-thousandths, rounded, for the first iterations
SinTable == <<0, 250, 500, 749, 998, 1247, 1494, 1741>>

\* math.Cos((1.0/40.0)*x) in ten-thousandths: a waveform that starts at its peak
CosTable == <<10000, 9997, 9988, 9972, 9950, 9922, 9888, 9847>>

Cos40(i) == CosTable[i + 1]

Sin40(i) == SinTable[i + 1]

\* environmentSimulator(y, x) = y * math.Sin((1.0/40.0)*x)
environmentSimulator(y, i) == y * Sin40(i)

\* a payload on the remediation topic: well-formed JSON or not, with or
\* without a "body" object, whose "temperature" is a number or is not
Payload(wellFormed, body) == [wellFormed |-> wellFormed, body |-> body]

\* the body of a payload: the number is absent when "temperature" is missing
\* or holds something that is not a number
PayloadBody(temperature) == [temperature |-> temperature]

CommandPayloads ==
  { Payload(TRUE, Ptr(PayloadBody(Ptr(t)))) : t \in {2600000, 2700000, 2900000} }
  \cup { Payload(TRUE, Ptr(PayloadBody(NilPtr))),    \* {"body": {"temperature": "hot"}}
         Payload(TRUE, NilPtr),                      \* {}
         Payload(FALSE, NilPtr) }                    \* not JSON

\* json.Unmarshal(payload, &iotEvent) on a zero IoTEvent: nothing is set on a
\* syntax error, Body stays nil without a "body", a field that does not
\* decode stays zero and its error is returned after the rest is decoded
Unmarshal(p) ==
  IF ~p.wellFormed THEN [event |-> IoTEvent(NilPtr), err |-> "SyntaxError"]
  ELSE IF p.body = NilPtr THEN [event |-> IoTEvent(NilPtr), err |-> Nil]
  ELSE LET t == Deref(p.body).temperature IN
       IF t = NilPtr
         THEN [event |-> IoTEvent(Ptr(Information("", 0, 0, ""))), err |-> "UnmarshalTypeError"]
         ELSE [event |-> IoTEvent(Ptr(Information("", Deref(t), 0, ""))), err |-> Nil]

\* the line each case of "switch action := remediationLogic" logs
SimLog(action) ==
  CASE action = -1 -> "Simulate cool down..."
    [] action = 1 -> "Simulate warm up..."
    [] OTHER -> "Simulate environment..."

\* the remediated cases with the sign of the action applied
simulatedMoveSigned(action, i) ==
  IF action \in {-1, 1} THEN action * environmentSimulator(REMEDIATION_FACTOR, i)
  ELSE environmentSimulator(VELOCITY, i)

\* simulatedMove as the switch computes it
simulatedMove(action, i) ==
  CASE action = -1 -> environmentSimulator(REMEDIATION_FACTOR, i)
    [] action = 1 -> environmentSimulator(REMEDIATION_FACTOR, i)
    [] OTHER -> environmentSimulator(VELOCITY, i)

\* "simulatedTemp := minTemp + simulatedMove"
simulatedTemp(move) == MIN_TEMP + move

\* a humidity that swings twice as wide as the temperature
simulatedHumOwnSignal(move) == MIN_HUM + 2 * move

\* "simulatedHum := minHum + simulatedMove"
simulatedHum(move) == MIN_HUM + move

\* "remediationLogic = 0" in main
InitialMode == 0

\* a lastTemp that starts at the base temperature
lastTempAtBase == MIN_TEMP

\* "lastTemp float64" in the var block: the zero value, until the loop assigns it
lastTempZero == 0

\* the comparison with <= for <
ColderOrEqual(t, last) == t <= last

\* "if iotEvent.Body.Temp < lastTemp"
Colder(t, last) == t < last

\* a command that is not colder switching the remediation off
ModeAfterReset(t, last, current) == IF Colder(t, last) THEN -1 ELSE 0

\* "if iotEvent.Body.Temp < lastTemp { remediationLogic = -1 }": the value
\* of remediationLogic after the test, current being its value before
ModeAfter(t, last, current) == IF Colder(t, last) THEN -1 ELSE current

NoUpdate == [x |-> 0, action |-> 0, log |-> "", payload |-> IoTEvent(NilPtr)]

\* --------------------------------------------------------- device: actions
\* the temperature of the last update that went out on the monitoring topic,
\* 0 when there is none
LastPublished ==
  IF telemetry = <<>> THEN 0 ELSE Deref(telemetry[Len(telemetry)].payload.Body).Temp

\* an error that is logged and nothing more
Errorf(cause) ==
  /\ halt' = cause
  /\ dpc' = dpc

\* log.Fatalf: the entry is written and the process exits
Fatalf(cause) ==
  /\ halt' = cause
  /\ dpc' = "halted"

\* main from prepareSimulatedDevices on: the TLS configuration, Connect, and
\* the two go statements
prepareSimulatedDevices ==
  /\ dpc = "main" /\ halt = ""
  /\ \E outcome \in {"ok", "tls", "connect"} :
       IF outcome = "ok"
         THEN /\ dpc' = "up"
              /\ gpc' = "simulate"
              /\ lpc' = "subscribe"
              /\ UNCHANGED halt
         ELSE /\ Fatalf(outcome)
              /\ UNCHANGED <<gpc, lpc>>
  /\ UNCHANGED <<now, wvars, cvars, remediationMode, lastTemp, lastHum, x, update, cbpc,
                 iotEvent, payloadIn, telemetry, received, commands>>

\* remediationListener: Subscribe with the default handler, fatal on error
remediationListener ==
  /\ dpc = "up" /\ lpc = "subscribe" /\ halt = ""
  /\ \E ok \in BOOLEAN :
       IF ok THEN lpc' = "listening" /\ UNCHANGED <<dpc, halt>>
             ELSE Fatalf("subscribe") /\ UNCHANGED lpc
  /\ UNCHANGED <<now, wvars, cvars, remediationMode, lastTemp, lastHum, x, gpc, update, cbpc,
                 iotEvent, payloadIn, telemetry, received, commands>>

\* monitoringLogicSimulator, one iteration from the switch to the update
\* being marshalled
monitoringLogicSimulator ==
  /\ dpc = "up" /\ gpc = "simulate"
  /\ x < MaxIter
  /\ LET move == simulatedMove(remediationMode, x)
     IN  /\ lastTemp' = simulatedTemp(move)
         /\ lastHum' = simulatedHum(move)
         /\ update' = [x |-> x, action |-> remediationMode, log |-> SimLog(remediationMode),
                       payload |-> IoTEvent(Ptr(Information(DEVICE_ID, simulatedTemp(move),
                                                            simulatedHum(move), Monitor)))]
  /\ gpc' = "publish"
  /\ UNCHANGED <<now, wvars, cvars, dpc, halt, remediationMode, x, lpc, cbpc,
                 iotEvent, payloadIn, telemetry, received, commands>>

\* monitoringLogicSimulator, the rest of the iteration: Publish, fatal on
\* error, then x = x + 1 and the sleep
publishUpdate ==
  /\ dpc = "up" /\ gpc = "publish"
  /\ \E ok \in BOOLEAN :
       IF ok THEN /\ telemetry' = Append(telemetry, update)
                  /\ x' = x + 1
                  /\ gpc' = "simulate"
                  /\ UNCHANGED <<dpc, halt>>
             ELSE /\ Fatalf("publish")
                  /\ UNCHANGED <<telemetry, x, gpc>>
  /\ UNCHANGED <<now, wvars, cvars, remediationMode, lastTemp, lastHum, update, lpc, cbpc,
                 iotEvent, payloadIn, received, commands>>

\* remediationLogicSimulator up to "remediationLogic = 1"
remediationLogicSimulator(p) ==
  /\ dpc = "up" /\ lpc = "listening" /\ cbpc = "idle"
  /\ commands < MaxCommands
  /\ commands' = commands + 1
  /\ payloadIn' = p
  /\ iotEvent' = Unmarshal(p).event
  /\ remediationMode' = 1
  /\ cbpc' = "compare"
  /\ UNCHANGED <<now, wvars, cvars, dpc, halt, lastTemp, lastHum, x, gpc, update, lpc,
                 telemetry, received>>

\* remediationLogicSimulator, "if iotEvent.Body.Temp < lastTemp": the
\* dereference of a nil Body panics and the process ends
compareTemp ==
  /\ dpc = "up" /\ cbpc = "compare"
  /\ IF iotEvent.Body = NilPtr
       THEN /\ halt' = "panic"
            /\ dpc' = "halted"
            /\ UNCHANGED <<remediationMode, received, cbpc>>
       ELSE LET t == Deref(iotEvent.Body).Temp
                after == ModeAfter(t, lastTemp, remediationMode)
            IN  /\ remediationMode' = after
                /\ received' = Append(received, [payload |-> payloadIn, temperature |-> t,
                                                 last |-> lastTemp, mode |-> after,
                                                 lastPublished |-> LastPublished,
                                                 published |-> Len(telemetry),
                                                 computed |-> IF update = NoUpdate
                                                                THEN 0 ELSE update.x + 1])
                /\ cbpc' = "idle"
                /\ UNCHANGED <<dpc, halt>>
  /\ UNCHANGED <<now, wvars, cvars, lastTemp, lastHum, x, gpc, update, lpc,
                 iotEvent, payloadIn, telemetry, commands>>

\* ---------------------------------------------------------- specifications
WorkerInit ==
  /\ ttlEnv \in TtlEnvInputs
  /\ ttlDynamo = InitTtlDynamo(ttlEnv)
  /\ unixNow = <<>>
  /\ event = IoTEvent(NilPtr)
  /\ m = unit(IoTEvent(NilPtr))
  /\ r = <<>>
  /\ wg = 0
  /\ hpc = "idle"
  /\ spc = [s \in SinkSet |-> "off"]
  /\ sres = [s \in SinkSet |-> NoSres]
  /\ cpc = NoConsumers
  /\ consumed = EmptyBag
  /\ metrics = <<>>
  /\ bucket = {}
  /\ table = {}
  /\ calls = [s \in SinkSet |-> <<>>]
  /\ puts = <<>>
  /\ ingestion = StartClock
  /\ dispatches = 0

RemediationInit ==
  /\ gate \in GateInputs
  /\ stream = NoStream
  /\ rpc = "idle"
  /\ rUnixNow = <<>>
  /\ message = IoTEvent(NilPtr)
  /\ direction = ""
  /\ rtable = {}
  /\ topic = <<>>
  /\ rcalls = <<>>
  /\ batches = 0

\* the device before prepareSimulatedDevices
DeviceInit ==
  /\ dpc = "main"
  /\ halt = ""
  /\ remediationMode = InitialMode
  /\ lastTemp = lastTempZero
  /\ lastHum = 0
  /\ x = 0
  /\ gpc = "off"
  /\ update = NoUpdate
  /\ lpc = "off"
  /\ cbpc = "idle"
  /\ iotEvent = IoTEvent(NilPtr)
  /\ payloadIn = Payload(FALSE, NilPtr)
  /\ telemetry = <<>>
  /\ received = <<>>
  /\ commands = 0

\* the worker function, the remediation function not deployed
Init ==
  /\ now = StartClock
  /\ WorkerInit
  /\ RemediationInit /\ gate = "false"
  /\ DeviceInit

WorkerNext ==
  \/ \E e \in EventInputs : handler(e)
  \/ pipeline
  \/ startConsume
  \/ waitDone
  \/ publishMetric
  \/ historicizeOnS3Bucket
  \/ persistOnDynamoDB
  \/ consume

Next ==
  \/ Tick
  \/ WorkerNext

Spec == Init /\ [][Next]_vars

\* the worker function under the Go scheduler: a goroutine that can run is
\* run, and an external call that was made returns. Nothing obliges the
\* platform to invoke the handler again or the clock to advance.
Fairness ==
  /\ WF_vars(pipeline)
  /\ WF_vars(startConsume)
  /\ WF_vars(waitDone)
  /\ WF_vars(publishMetric)
  /\ WF_vars(historicizeOnS3Bucket)
  /\ WF_vars(persistOnDynamoDB)
  /\ WF_vars(consume)

\* the worker function with the default TTL, invoked at most MaxFairDispatch times
FairInit == Init /\ ttlEnv = <<>>

FairNext ==
  \/ Tick
  \/ dispatches < MaxFairDispatch /\ \E e \in EventInputs : handler(e)
  \/ pipeline
  \/ startConsume
  \/ waitDone
  \/ publishMetric
  \/ historicizeOnS3Bucket
  \/ persistOnDynamoDB
  \/ consume

FairSpec == FairInit /\ [][FairNext]_vars /\ Fairness

\* the remediation function, the worker function not invoked
ChangeInit ==
  /\ now = StartClock
  /\ WorkerInit /\ ttlEnv = <<>>
  /\ RemediationInit
  /\ DeviceInit

RemediationNext ==
  \/ \E s \in Streams : remediationHandler(s)
  \/ remediationPersist
  \/ remediationPublish
  \/ remediationReturn

ChangeNext ==
  \/ Tick
  \/ RemediationNext

ChangeSpec == ChangeInit /\ [][ChangeNext]_vars

\* the device alone, with the messages of the remediation topic as inputs
DeviceSpecInit ==
  /\ now = StartClock
  /\ WorkerInit /\ ttlEnv = <<>>
  /\ RemediationInit /\ gate = "false"
  /\ DeviceInit

DeviceNext ==
  \/ prepareSimulatedDevices
  \/ remediationListener
  \/ monitoringLogicSimulator
  \/ publishUpdate
  \/ \E p \in CommandPayloads : remediationLogicSimulator(p)
  \/ compareTemp

DeviceSpec == DeviceSpecInit /\ [][DeviceNext]_vars

\* the device and the remediation function are two programs in two
\* processes: a behaviour of this specification is a behaviour of the one or
\* of the other, whichever takes the first step
DeviceAlone == batches = 0 /\ rpc = "idle" /\ now = StartClock

RemediationAlone == dpc = "main" /\ halt = ""

EitherNext ==
  \/ DeviceAlone /\ prepareSimulatedDevices
  \/ DeviceAlone /\ remediationListener
  \/ DeviceAlone /\ monitoringLogicSimulator
  \/ DeviceAlone /\ publishUpdate
  \/ DeviceAlone /\ \E p \in CommandPayloads : remediationLogicSimulator(p)
  \/ DeviceAlone /\ compareTemp
  \/ RemediationAlone /\ Tick
  \/ RemediationAlone /\ \E s \in Streams : remediationHandler(s)
  \/ RemediationAlone /\ remediationPersist
  \/ RemediationAlone /\ remediationPublish
  \/ RemediationAlone /\ remediationReturn

EitherSpec == ChangeInit /\ [][EitherNext]_vars

\* ------------------------------------------------------- worker: claims
SinkFailed(s) == calls[s] # <<>> /\ ~calls[s][1].ok

SinkWrote(s) == calls[s] # <<>> /\ calls[s][1].ok

\* the error each sink's external call returns when it fails
FailureOf(s) ==
  CASE s = "publishMetric" -> "PutMetricDataError"
    [] s = "historicizeOnS3Bucket" -> "UploadError"
    [] s = "persistOnDynamoDB" -> "PutItemError"

\* the number of consumed outcomes whose Error is e
ErrorCount(e) ==
  BagCardinality([j \in {k \in BagToSet(consumed) : k.Error = e} |-> consumed[j]])

\* C1: when the handler has completed, exactly three outcomes have been
\* produced and consumed, one from each sink, whatever succeeded or failed;
\* at no time are there more outcomes than sinks.
C1_Cardinality ==
  /\ BagCardinality(consumed) + Len(r) <= Len(Sinks)
  /\ hpc = "done" =>
       /\ BagCardinality(consumed) = Len(Sinks)
       /\ r = <<>>
       /\ \A s \in SinkSet : CopiesIn(Job(event, sres[s].res, sres[s].err), consumed) = 1

C1_Witness ==
  /\ hpc = "done"
  /\ \E s, t \in SinkSet : SinkFailed(s) /\ SinkWrote(t)

\* C2: the handler is past wg.Wait() only when every sink has reported its
\* outcome on the channel and every outcome has been received.
C2_Join ==
  hpc = "done" => /\ \A s \in SinkSet : spc[s] = "end"
                  /\ cpc = [recv |-> 0, end |-> ConsumerCount]
                  /\ wg = 0

\* the handler held at the join although a first outcome is already in
C2_Witness ==
  /\ hpc = "wait"
  /\ BagCardinality(consumed) >= 1
  /\ \E s \in SinkSet : spc[s] = "run"

\* C3: a failed write shows in the Error of that sink's outcome and in no
\* other outcome; every sink makes its call exactly once, the calls that
\* succeed are in their stores, and a dispatch of an event with a body
\* never ends the process.
C3_FailureIsolated ==
  /\ \A s \in SinkSet : Len(calls[s]) <= 1
  /\ event.Body # NilPtr => hpc # "crashed"
  /\ hpc = "done" =>
       /\ \A s \in SinkSet : Len(calls[s]) = 1
       /\ \A s \in SinkSet : ErrorCount(FailureOf(s)) = IF SinkFailed(s) THEN 1 ELSE 0
       /\ ErrorCount(Nil) = Cardinality({s \in SinkSet : SinkWrote(s)})
       /\ SinkWrote("publishMetric") =>
            metrics # <<>> /\ metrics[Len(metrics)] = MetricData(Deref(event.Body))
       /\ SinkWrote("historicizeOnS3Bucket") =>
            [key |-> FormatInt(ingestion), body |-> Marshal(event)] \in bucket
       /\ SinkWrote("persistOnDynamoDB") =>
            \E i \in table : i.digest = FormatInt(ingestion) /\ i.device = Deref(event.Body).Device

\* one sink failed, the other two wrote, the handler completed
C3_Witness ==
  /\ hpc = "done"
  /\ SinkFailed("historicizeOnS3Bucket")
  /\ SinkWrote("publishMetric") /\ SinkWrote("persistOnDynamoDB")

\* C4: the key of the object upload and the digest of the record are both
\* the timestamp taken at the handler's entry, also when the clock moves
\* during the dispatch.
C4_SharedTimestamp ==
  /\ \A s \in {"historicizeOnS3Bucket", "persistOnDynamoDB"} :
       \A i \in DOMAIN calls[s] : calls[s][i].key = FormatInt(ingestion)
  /\ (SinkWrote("historicizeOnS3Bucket") /\ SinkWrote("persistOnDynamoDB")) =>
       \E o \in bucket, i \in table : o.key = i.digest /\ i.digest = FormatInt(ingestion)

\* both writes made, and the clock has moved since the entry
C4_Witness ==
  /\ SinkWrote("historicizeOnS3Bucket") /\ SinkWrote("persistOnDynamoDB")
  /\ now > ingestion

\* C5: the record the upsert stores has the event's device, temperature,
\* humidity and action, the entry timestamp as digest, and ttl = entry
\* timestamp + offset, the offset being 90 when TTL_DYNAMO is "90" and 60
\* when it is unset or not a number.
C5_RecordCarriesEvent ==
  SinkWrote("persistOnDynamoDB") =>
    LET b == Deref(event.Body) IN
    [digest |-> FormatInt(ingestion), device |-> b.Device, temperature |-> b.Temp,
     humidity |-> b.Hum, action |-> b.Action,
     ttl |-> ingestion + (IF ttlEnv = <<"9", "0">> THEN 90 ELSE 60)] \in table

\* a record stored with the override configured
C5_Witness ==
  /\ SinkWrote("persistOnDynamoDB")
  /\ ttlEnv = <<"9", "0">>

\* C6: no two writes to the record store use the same digest.
C6_UniqueDigests ==
  \A i, j \in DOMAIN puts : i # j => puts[i].digest # puts[j].digest

\* C7: the table holds, for every digest written, exactly the item of the
\* last upsert under that digest, so one record per digest and never more
\* records than distinct digests.
C7_LastWriteWins ==
  /\ table = { puts[k] : k \in { i \in DOMAIN puts :
                                   \A j \in DOMAIN puts : j > i => puts[j].digest # puts[i].digest } }
  /\ \A a, b \in table : a.digest = b.digest => a = b
  /\ Cardinality(table) <= Cardinality({puts[i].digest : i \in DOMAIN puts})

\* two upserts of different values under one digest, one record left
C7_Witness ==
  \E i, j \in DOMAIN puts :
    /\ i < j /\ puts[i].digest = puts[j].digest /\ puts[i] # puts[j]
    /\ {a \in table : a.digest = puts[j].digest} = {puts[j]}

\* -------------------------------------------------- remediation: claims
\* the value of attribute name in the last record of the batch whose image
\* img carries it, zero when no record does
LastValue(img, name) ==
  LET carrying == {i \in DOMAIN stream.Records : name \in DOMAIN stream.Records[i][img]}
      last == CHOOSE i \in carrying : \A j \in carrying : j <= i
  IN  IF carrying = {} THEN 0 ELSE stream.Records[last][img][name]

\* the handler has built a message for the batch in stream
Emitted == Enabled(gate) /\ rpc # "idle"

Published == \E i \in DOMAIN rcalls : rcalls[i].call = "Publish" /\ rcalls[i].ok

Persisted == \E i \in DOMAIN rcalls : rcalls[i].call = "PutItem" /\ rcalls[i].ok

\* the message, the item persisted and the payload published all carry
\* temperature t and humidity h
Carries(t, h) ==
  /\ Deref(message.Body).Temp = t /\ Deref(message.Body).Hum = h
  /\ Persisted => \E i \in rtable : i.digest = rUnixNow /\ i.temperature = t /\ i.humidity = h
  /\ Published => \A b \in topic[Len(topic)].body : b.temperature = t /\ b.humidity = h

\* C8: when the old temperature or the old humidity of the batch is zero,
\* the command carries the new temperature and the new humidity, both of them.
C8_Bootstrap ==
  (Emitted /\ (LastValue("OldImage", "temperature") = 0 \/ LastValue("OldImage", "humidity") = 0))
    => Carries(LastValue("NewImage", "temperature"), LastValue("NewImage", "humidity"))

\* only the old humidity is zero, and the command went out
C8_Witness ==
  /\ Emitted /\ Published /\ Persisted
  /\ LastValue("OldImage", "temperature") # 0
  /\ LastValue("OldImage", "humidity") = 0
  /\ LastValue("NewImage", "temperature") # 0
  /\ LastValue("NewImage", "humidity") # 0

\* C9: when the old temperature and the old humidity are both non-zero, the
\* command carries exactly them, in the cooling branch as in the warming one.
C9_OldPreserved ==
  (Emitted /\ LastValue("OldImage", "temperature") # 0 /\ LastValue("OldImage", "humidity") # 0)
    => /\ Carries(LastValue("OldImage", "temperature"), LastValue("OldImage", "humidity"))
       /\ direction = IF LastValue("NewImage", "temperature") > LastValue("OldImage", "temperature")
                        THEN "cooling down" ELSE "warming up"

\* the temperature rose, both old values are there, and the command went out
C9_Witness ==
  /\ Emitted /\ Published /\ Persisted
  /\ direction = "cooling down"
  /\ LastValue("OldImage", "temperature") # 0 /\ LastValue("OldImage", "humidity") # 0
  /\ LastValue("NewImage", "temperature") # LastValue("OldImage", "temperature")
  /\ LastValue("NewImage", "humidity") # LastValue("OldImage", "humidity")

\* scenario 3: one record, old image {temperature 26.0}, new image {temperature 29.0}
Scenario3 ==
  [Records |-> << [NewImage |-> [temperature |-> 290], OldImage |-> [temperature |-> 260]] >>]

\* the same with a humidity in the old image
Scenario3WithHumidity ==
  [Records |-> << [NewImage |-> [temperature |-> 290],
                   OldImage |-> [temperature |-> 260, humidity |-> 600]] >>]

\* C10: in scenario 3, without any humidity, the command carries
\* temperature 26.0.
C10_Scenario3 ==
  (Emitted /\ stream = Scenario3) => Deref(message.Body).Temp = 260

\* C10 amended: in scenario 3, without any humidity, the old humidity is
\* zero, the new values are substituted and the command carries temperature
\* 29.0; with a non-zero humidity in the old image it carries 26.0.
C10_Scenario3Amended ==
  /\ (Emitted /\ stream = Scenario3) => Carries(290, 0)
  /\ (Emitted /\ stream = Scenario3WithHumidity) => Carries(260, 600)

C10_Witness ==
  Emitted /\ stream = Scenario3 /\ Published

\* C11: no command that was persisted or published has a temperature or a
\* humidity of zero, whatever the batch.
C11_NoZeroTarget ==
  (Emitted /\ (Persisted \/ Published))
    => Deref(message.Body).Temp # 0 /\ Deref(message.Body).Hum # 0

\* C12: the PutItem of the command has been issued and has returned before
\* its Publish is issued; no Publish without a PutItem attempted before it
\* under the digest of this invocation.
C12_PersistBeforePublish ==
  /\ \A i \in DOMAIN rcalls :
       rcalls[i].call = "Publish"
         => i > 1 /\ rcalls[i - 1].call = "PutItem" /\ rcalls[i - 1].key = rUnixNow
  /\ rpc = "publish" => Len(rcalls) = 1 /\ rcalls[1].call = "PutItem"
  /\ rpc = "persist" => rcalls = <<>>

\* the command was published after a PutItem that was attempted and failed
C12_Witness ==
  /\ rpc = "return" /\ Published /\ ~Persisted
  /\ Len(rcalls) = 2 /\ rcalls[1].call = "PutItem"

\* C13: with REMEDIATION_LOGIC other than "true" no batch persists a record
\* or publishes a command: no call is made, table and topic stay as they were.
C13_DisabledFrame ==
  gate # "true" => rtable = {} /\ topic = <<>> /\ rcalls = <<>> /\ rpc \in {"idle", "return"}

\* a batch was handled with REMEDIATION_LOGIC = "True"
C13_Witness ==
  gate = "True" /\ rpc = "return" /\ stream # NoStream

\* C14: a PutItem error or a Publish error never fails the batch: the handler
\* reaches its return with both calls made, the Publish also after a failed
\* PutItem, and there is no failed end.
C14_ErrorsTolerated ==
  /\ rpc \in {"idle", "persist", "publish", "return"}
  /\ (rpc = "return" /\ Enabled(gate))
       => /\ Len(rcalls) = 2
          /\ rcalls[1].call = "PutItem"
          /\ rcalls[2].call = "Publish"

\* the handler at its return after PutItem and Publish both failed
C14_Witness ==
  /\ rpc = "return" /\ Len(rcalls) = 2
  /\ ~rcalls[1].ok /\ ~rcalls[2].ok

\* ------------------------------------------------------- device: claims
\* the modes by what the generation loop logs for the value of remediationLogic
IsNeutral(action) == SimLog(action) = "Simulate environment..."

IsWarming(action) == SimLog(action) = "Simulate warm up..."

IsCooling(action) == SimLog(action) = "Simulate cool down..."

\* C15: a command whose temperature is strictly below the last published
\* temperature sets the mode to Warming, any other command sets it to Cooling.
C15_ModeTransition ==
  \A i \in DOMAIN received :
    IF received[i].temperature < received[i].lastPublished
      THEN IsWarming(received[i].mode)
      ELSE IsCooling(received[i].mode)

\* C15 amended: a command whose temperature is strictly below lastTemp, the
\* last temperature the loop computed (0 before the first iteration, and
\* already that of the update about to be published), sets remediationLogic
\* to -1, the mode the loop logs as cooling down; any other command, one of
\* equal temperature included, sets it to 1, the mode logged as warming up.
C15_ModeTransitionAmended ==
  \A i \in DOMAIN received :
    IF received[i].temperature < received[i].last
      THEN received[i].mode = -1 /\ IsCooling(received[i].mode)
      ELSE received[i].mode = 1 /\ IsWarming(received[i].mode)

\* a command below the last temperature and a command equal to it have been
\* handled, one of them between the computation of an update and its publish
C15_Witness ==
  /\ telemetry # <<>>
  /\ \E i, j, k \in DOMAIN received :
       /\ received[i].temperature < received[i].last /\ received[i].temperature > 0
       /\ received[j].temperature = received[j].last
       /\ received[k].last # received[k].lastPublished

\* C16: the mode is Neutral until the first command is received and never
\* again after it; it changes only in the command callback, never in a step
\* of the generation loop.
C16_ModeOnlyByCommand ==
  /\ [](commands = 0 => IsNeutral(remediationMode))
  /\ [](commands > 0 => ~IsNeutral(remediationMode))
  /\ [][remediationMode' # remediationMode => (cbpc' # cbpc /\ gpc' = gpc /\ x' = x)]_vars
  /\ [][(gpc' # gpc \/ x' # x) => remediationMode' = remediationMode]_vars

\* two generation ticks published under the mode a command had set before
C16_Witness ==
  /\ Len(telemetry) = 2 /\ Len(received) = 1
  /\ telemetry[1].action # 0 /\ telemetry[2].action = telemetry[1].action
  /\ remediationMode = telemetry[2].action

\* C17: a failed publish of a telemetry event does not stop the generation
\* loop: the process is not ended by it, the counter advances and the next
\* tick publishes.
C17_PublishFailureTolerated ==
  halt # "publish"

\* C18: a payload that does not deserialize or has no body does not crash
\* the controller; the mode update is applied with temperature 0.
C18_MalformedTolerated ==
  /\ halt # "panic"
  /\ (cbpc = "idle" /\ commands > 0 /\ (~payloadIn.wellFormed \/ payloadIn.body = NilPtr))
       => /\ received # <<>>
          /\ received[Len(received)].payload = payloadIn
          /\ received[Len(received)].temperature = 0

\* a step that publishes nothing and processes no command
NothingMore ==
  /\ telemetry' = telemetry /\ received' = received
  /\ commands' = commands /\ remediationMode' = remediationMode

\* C19: a failure of Connect or of Subscribe halts the controller; from then
\* on nothing is published and no command is processed, and after a failed
\* Connect nothing ever was.
C19_SetupFailureFatal ==
  /\ [](halt \in {"connect", "subscribe"} => dpc = "halted")
  /\ [](halt = "connect" => telemetry = <<>> /\ received = <<>> /\ commands = 0)
  /\ [](halt = "subscribe" => received = <<>> /\ commands = 0)
  /\ [][(halt \in {"connect", "subscribe"}) => NothingMore]_vars

\* Subscribe failed after the loop had published an update
C19_Witness ==
  halt = "subscribe" /\ dpc = "halted" /\ telemetry # <<>>

\* C20: every update published carries MIN_TEMP and MIN_HUM plus the offset
\* of its iteration, computed with the velocity when the loop read mode 0 and
\* with the remediation factor when it read 1 or -1; for one iteration
\* counter the offset under 1 and under -1 is the same.
C20_OffsetByMode ==
  /\ \A i \in DOMAIN telemetry :
       LET e == telemetry[i]
           y == IF e.action = 0 THEN VELOCITY ELSE REMEDIATION_FACTOR
           b == Deref(e.payload.Body)
       IN  /\ e.x = i - 1
           /\ b.Temp = MIN_TEMP + y * Sin40(e.x)
           /\ b.Hum = MIN_HUM + y * Sin40(e.x)
           /\ b.Device = DEVICE_ID /\ b.Action = Monitor
  /\ \A i \in 0..MaxIter : simulatedMove(1, i) = simulatedMove(-1, i)

\* an update with a non-zero offset published in the cooling mode
C20_Witness ==
  \E i \in DOMAIN telemetry :
    /\ telemetry[i].action = -1 /\ telemetry[i].x > 0
    /\ Deref(telemetry[i].payload.Body).Temp = MIN_TEMP + REMEDIATION_FACTOR * Sin40(telemetry[i].x)
    /\ Deref(telemetry[i].payload.Body).Temp # MIN_TEMP

\* C21: in every update published, temperature and humidity are the two
\* bases plus one shared offset, so humidity - temperature is always
\* MIN_HUM - MIN_TEMP, on every tick and under every mode.
C21_SharedOffset ==
  \A i \in DOMAIN telemetry :
    LET b == Deref(telemetry[i].payload.Body) IN
    /\ b.Hum - b.Temp = MIN_HUM - MIN_TEMP
    /\ b.Temp - MIN_TEMP = b.Hum - MIN_HUM
    /\ b.Temp - MIN_TEMP = simulatedMove(telemetry[i].action, telemetry[i].x)

\* two updates published, the second with a non-zero offset and under a mode
\* a command had set
C21_Witness ==
  /\ Len(telemetry) = 2
  /\ telemetry[2].action # 0
  /\ Deref(telemetry[2].payload.Body).Temp # MIN_TEMP
  /\ Deref(telemetry[2].payload.Body).Hum # MIN_HUM

\* ------------------------------------------------- claims on both programs
\* C22: every update the device publishes on the monitoring topic has action
\* Monitor; every command the remediation function builds, persists or
\* publishes has action Remediate, also when the images it was built from
\* carry the action Monitor.
C22_ActionTags ==
  /\ \A i \in DOMAIN telemetry : Deref(telemetry[i].payload.Body).Action = "Monitor"
  /\ update.payload.Body # NilPtr => Deref(update.payload.Body).Action = "Monitor"
  /\ message.Body # NilPtr => Deref(message.Body).Action = "Remediate"
  /\ \A i \in rtable : i.action = "Remediate"
  /\ \A i \in DOMAIN topic : \A b \in topic[i].body : b.action = "Remediate"

\* a command persisted and published from a batch whose new images all carry
\* the action Monitor
C22_Witness ==
  /\ rpc = "return" /\ Persisted /\ Published
  /\ \A i \in DOMAIN stream.Records :
       /\ "action" \in DOMAIN stream.Records[i].NewImage
       /\ stream.Records[i].NewImage["action"] = Monitor
  /\ \E i \in rtable : i.action = "Remediate"

\* ------------------------------------------------ worker: further claims
\* the Job a sink sends, from the outcome of its one external call
ExpectedJob(s) ==
  LET ok == calls[s][1].ok IN
  CASE s = "publishMetric" ->
         Job(event, Deref(event.Body).Action, IF ok THEN Nil ELSE FailureOf(s))
    [] s = "historicizeOnS3Bucket" ->
         Job(event, IF ok THEN "UploadOutput" ELSE "", IF ok THEN Nil ELSE FailureOf(s))
    [] s = "persistOnDynamoDB" ->
         Job(event, IF ok THEN "PutItemOutput" ELSE "", IF ok THEN Nil ELSE FailureOf(s))

\* C23: a sink makes its external call exactly once in a dispatch, at the
\* moment it ends, so a completed dispatch has made exactly three external
\* calls, one PutMetricData, one Upload and one PutItem, whatever they returned.
C23_OneWritePerSink ==
  /\ hpc # "crashed" =>
       \A s \in SinkSet : Len(calls[s]) = IF spc[s] = "end" THEN 1 ELSE 0
  /\ hpc = "done" =>
       /\ Len(calls["publishMetric"]) + Len(calls["historicizeOnS3Bucket"])
            + Len(calls["persistOnDynamoDB"]) = Len(Sinks)
       /\ calls["historicizeOnS3Bucket"][1].key = unixNow
       /\ calls["persistOnDynamoDB"][1].key = unixNow

\* a dispatch completed with all three calls failed
C23_Witness ==
  /\ hpc = "done"
  /\ \A s \in SinkSet : SinkFailed(s)

\* C26: every sink is started before a consumer waits for an outcome; a
\* started sink of an event with a body can always take its step, whatever
\* the other sinks have done; and at completion the outcomes consumed are
\* the three Jobs fixed by the event and by what each call returned, in
\* whatever order the sinks reported.
C26_OrderIndependent ==
  /\ (hpc \in {"consume", "wait", "done"} \/ cpc.recv + cpc.end > 0)
       => \A s \in SinkSet : spc[s] # "off"
  /\ (Running /\ event.Body # NilPtr) =>
       /\ spc["publishMetric"] = "run" => ENABLED publishMetric
       /\ spc["historicizeOnS3Bucket"] = "run" => ENABLED historicizeOnS3Bucket
       /\ spc["persistOnDynamoDB"] = "run" => ENABLED persistOnDynamoDB
  /\ hpc = "done" =>
       /\ consumed = SetToBag({ExpectedJob(s) : s \in SinkSet})
       /\ SinkWrote("publishMetric") =>
            (metrics # <<>> /\ metrics[Len(metrics)] = MetricData(Deref(event.Body)))
       /\ SinkWrote("historicizeOnS3Bucket") =>
            [key |-> unixNow, body |-> Marshal(event)] \in bucket
       /\ SinkWrote("persistOnDynamoDB") => NewItem \in table

\* the three outcomes in the channel in the reverse of the order in which
\* the sinks were started, before any consumer has started
C26_Witness ==
  /\ hpc = "consume" /\ event.Body # NilPtr
  /\ r = << Job(event, "PutItemOutput", Nil),
            Job(event, "UploadOutput", Nil),
            Job(event, Deref(event.Body).Action, Nil) >>

\* C27: the Job the sinks share and every outcome reference the event the
\* handler was given, unchanged; the metric data, the object and the item
\* written carry the device, temperature, humidity and action of that event.
C27_EventUnchanged ==
  /\ hpc \notin {"idle", "crashed"} => m.Event = event
  /\ \A i \in DOMAIN r : r[i].Event = event
  /\ \A j \in BagToSet(consumed) : j.Event = event
  /\ (hpc # "crashed" /\ event.Body # NilPtr) =>
       LET b == Deref(event.Body) IN
       /\ SinkWrote("publishMetric") =>
            /\ metrics[Len(metrics)][1].value = b.Temp
            /\ metrics[Len(metrics)][2].value = b.Hum
            /\ metrics[Len(metrics)][1].device = b.Device
            /\ sres["publishMetric"].res = b.Action
       /\ SinkWrote("historicizeOnS3Bucket") =>
            \E o \in bucket :
              /\ o.key = unixNow
              /\ o.body = [body |-> {[device |-> b.Device, temperature |-> b.Temp,
                                      humidity |-> b.Hum, action |-> b.Action]}]
       /\ SinkWrote("persistOnDynamoDB") =>
            \E i \in table :
              /\ i.digest = unixNow
              /\ i.device = b.Device /\ i.temperature = b.Temp
              /\ i.humidity = b.Hum /\ i.action = b.Action

\* a dispatch of the second device's event completed with all three writes made
C27_Witness ==
  /\ hpc = "done"
  /\ event.Body # NilPtr /\ Deref(event.Body).Device = "d2"
  /\ \A s \in SinkSet : SinkWrote(s)

\* C30: the channel has as many places as there are sinks, so a started sink
\* always finds a free place for its outcome, with or without consumers; at
\* completion the channel is empty, every outcome has been received once by
\* one of the consumers, and no sink and no consumer is left waiting.
C30_ChannelNeverBlocks ==
  /\ Len(r) <= ChanCap
  /\ Cardinality({s \in SinkSet : spc[s] = "run"}) + Len(r) + BagCardinality(consumed)
       <= ChanCap + cpc.end
  /\ \A s \in SinkSet : (Running /\ spc[s] = "run") => Len(r) < ChanCap
  /\ hpc = "done" =>
       /\ r = <<>>
       /\ cpc.recv = 0
       /\ cpc.end = BagCardinality(consumed)
       /\ \A j \in BagToSet(consumed) : CopiesIn(j, consumed) = 1
       /\ \A s \in SinkSet : spc[s] = "end"

\* the channel full, all three sinks at their end, no consumer started yet
C30_Witness ==
  /\ hpc = "consume" /\ cpc = NoConsumers
  /\ Len(r) = ChanCap
  /\ \A s \in SinkSet : spc[s] = "end"

\* C25: under fair scheduling, with every external call returning, a dispatch
\* of an event with a body always reaches the end of the handler, whatever
\* the calls returned and however sinks and consumers interleave; a dispatch
\* of any event ends, by completion or by the crash of the process, and is
\* never left at the join.
C25_DispatchCompletes ==
  /\ (Running /\ event.Body # NilPtr) ~> (hpc = "done")
  /\ Running ~> (hpc \in {"done", "crashed"})

\* a dispatch completed with two of its three calls failed
C25_Witness ==
  /\ hpc = "done"
  /\ Cardinality({s \in SinkSet : SinkFailed(s)}) = 1 + 1
  /\ cpc.end = 1 + 1 + 1

\* ------------------------------------------------ device: further claims
\* amplitudes for which the offset at iteration 0 is computed
Amplitudes == -20 .. 20

\* C24: the offset at iteration 0 is 0 for every amplitude, so the update
\* computed at x = 0, and with it the first update published, carries the
\* base temperature and the base humidity in every mode.
C24_FirstAtBase ==
  /\ \A a \in Amplitudes : environmentSimulator(a, 0) = 0
  /\ \A mode \in {-1, 0, 1} : simulatedMove(mode, 0) = 0
  /\ (update # NoUpdate /\ update.x = 0) =>
       /\ Deref(update.payload.Body).Temp = MIN_TEMP
       /\ Deref(update.payload.Body).Hum = MIN_HUM
  /\ telemetry # <<>> =>
       /\ telemetry[1].x = 0
       /\ Deref(telemetry[1].payload.Body).Temp = MIN_TEMP
       /\ Deref(telemetry[1].payload.Body).Hum = MIN_HUM

\* the first update was published in mode 1, set by a command that arrived
\* before the first tick
C24_Witness ==
  /\ telemetry # <<>>
  /\ telemetry[1].action = 1
  /\ received # <<>>

\* C29: every decision the listener took once an update had been published
\* compared the command with the temperature of the last update published
\* at that moment.
C29_ComparesPublished ==
  \A i \in DOMAIN received :
    received[i].published > 0 => received[i].last = received[i].lastPublished

\* -------------------------------------------- remediation: further claims
\* the device of the last record of the batch whose new image names one
LastDevice ==
  IF \E i \in DOMAIN stream.Records : "device" \in DOMAIN stream.Records[i].NewImage
    THEN LastValue("NewImage", "device") ELSE ""

\* the calls of one kind the handler has made for the batch in stream
CallsOf(kind) == {i \in DOMAIN rcalls : rcalls[i].call = kind}

\* C28: with the logic enabled a batch yields one command, persisted with one
\* PutItem and published with one Publish however many records it has; each
\* value accumulated from the batch is that of the last record whose image
\* carries the attribute, a record without it leaving the earlier value.
C28_OneCommandPerBatch ==
  /\ Emitted =>
       LET acc == Accumulate(ZeroAcc, stream.Records) IN
       /\ acc.deviceId = LastDevice
       /\ acc.newTemperature = LastValue("NewImage", "temperature")
       /\ acc.newHumidity = LastValue("NewImage", "humidity")
       /\ acc.oldTemperature = LastValue("OldImage", "temperature")
       /\ acc.oldHumidity = LastValue("OldImage", "humidity")
       /\ Deref(message.Body).Device = LastDevice
       /\ Deref(message.Body).Temp \in {acc.newTemperature, acc.oldTemperature}
       /\ Deref(message.Body).Hum \in {acc.newHumidity, acc.oldHumidity}
  /\ Cardinality(CallsOf("PutItem")) <= 1
  /\ Cardinality(CallsOf("Publish")) <= 1
  /\ (Emitted /\ rpc = "return") =>
       /\ Cardinality(CallsOf("PutItem")) = 1
       /\ Cardinality(CallsOf("Publish")) = 1
       /\ Len(rcalls) = 1 + 1
  /\ Len(topic) <= batches
  /\ Cardinality(rtable) <= batches

\* a batch of two records whose second shows no humidity, new or old, where
\* the first showed both: the command went out with the humidity kept from
\* the first record and the temperature of the second
C28_Witness ==
  /\ Emitted /\ rpc = "return"
  /\ Len(stream.Records) = 1 + 1
  /\ "humidity" \in DOMAIN stream.Records[1].NewImage
  /\ "humidity" \in DOMAIN stream.Records[1].OldImage
  /\ "humidity" \notin DOMAIN stream.Records[1 + 1].NewImage
  /\ "humidity" \notin DOMAIN stream.Records[1 + 1].OldImage
  /\ "temperature" \in DOMAIN stream.Records[1 + 1].OldImage
  /\ Persisted /\ Published
  /\ Deref(message.Body).Hum = stream.Records[1].OldImage["humidity"]
  /\ Deref(message.Body).Temp = stream.Records[1 + 1].OldImage["temperature"]

\* a write into table t puts a record on the change log that invokes the
\* remediation function
Triggers(t) == Streamed(t) /\ t = StreamSource

\* a step of the remediation function that reaches no streamed table
NoSelfTriggerStep ==
  /\ table' = table
  /\ \A i \in DOMAIN rcalls' :
       rcalls'[i].call = "PutItem" =>
         /\ rcalls'[i].table = "RemediationLogicTable"
         /\ ~Triggers(rcalls'[i].table)
  /\ rtable' # rtable => (rpc = "persist" /\ Cardinality(rtable') <= batches)

\* C31: the remediation function persists its command into the remediation
\* table, which has no stream, and never into the monitoring table whose
\* stream invokes it: no step of it changes the monitoring table, so
\* handling a batch puts no record on the change log that triggers it.
C31_NoSelfTrigger == [][NoSelfTriggerStep]_vars

\* a batch handled with the command persisted and published: the remediation
\* table holds the item and the monitoring table holds nothing
C31_Witness ==
  /\ rpc = "return" /\ Persisted /\ Published
  /\ batches = 1
  /\ \E i \in rtable : i.digest = rUnixNow /\ i.action = "Remediate"
  /\ table = {}

=============================================================================
